---- MODULE Spec2Model ----
(***************************************************************************)
(* A model of core/lib/cloudfront-distribution-helper.ts: the two entry    *)
(* operations CloudFrontDistributionForApiGateway and                      *)
(* CloudFrontDistributionForS3, run statement by statement against a       *)
(* construct tree.  A construct is created under a scope by its id; the    *)
(* framework refuses a second construct with the same id in one scope, and *)
(* the invocation then ends by that exception with what it had created.    *)
(***************************************************************************)
EXTENDS Naturals, Sequences, FiniteSets, TLC

VARIABLES tree, policy, frame, pc, calls, returned

vars == <<tree, policy, frame, pc, calls, returned>>

(***************************************************************************)
(* Bounds and the inputs the callers draw from.                            *)
(***************************************************************************)
\* Number of invocations of the entry operations in one run.
MaxCalls == 2

\* The scopes handed to the entry operations.
Scopes == {"s1", "s2"}

\* A reference to a construct: the scope that owns it and its id.
Ref(s, i) == [scope |-> s, id |-> i]

\* JavaScript's undefined, where a reference is expected.
Undefined == Ref("", "undefined")

\* Constructs the caller owns and passes in.
SourceBuckets == {Ref("caller", "B1"), Ref("caller", "B2")}
ApiEndPoints == {Ref("caller", "E")}
CallerLogBucket == Ref("caller", "M")

\* An object without properties.
EmptyObj == [k \in {} |-> TRUE]

\* The values of the optional boolean httpSecurityHeaders.
HeaderInputs == {"undefined", "true", "false"}

\* The shapes of cloudFrontDistributionProps the callers pass.
PropsKinds == {"none", "empty", "logBucket", "logPrefix", "logBucketPrefix", "comment"}

PropsOf(kind) ==
    CASE kind = "none" -> [defined |-> FALSE, obj |-> EmptyObj]
      [] kind = "empty" -> [defined |-> TRUE, obj |-> EmptyObj]
      [] kind = "logBucket" ->
            [defined |-> TRUE,
             obj |-> ("loggingConfig" :> ("bucket" :> CallerLogBucket))]
      [] kind = "logPrefix" ->
            [defined |-> TRUE,
             obj |-> ("loggingConfig" :> ("prefix" :> "logs/"))]
      [] kind = "logBucketPrefix" ->
            [defined |-> TRUE,
             obj |-> ("loggingConfig" :>
                        ("bucket" :> CallerLogBucket @@ "prefix" :> "logs/"))]
      [] kind = "comment" ->
            [defined |-> TRUE, obj |-> ("comment" :> "served by CloudFront")]

(***************************************************************************)
(* Constructs.                                                             *)
(***************************************************************************)
\* A compliance suppression: a rule id and its justification.
Suppression(rule, why) == [id |-> rule, reason |-> why]

\* A freshly created construct; `by` names the invocation that writes it.
Construct(kind, by, link, props) ==
    [kind |-> kind, writers |-> {by}, overrides |-> {}, deletions |-> {},
     metadata |-> <<>>, link |-> link, props |-> props]

\* new X(scope, id, ...): the construct becomes a child of the scope.
AddChild(sub, id, res) == sub @@ (id :> res)

\* The framework's name registry: a scope holds one construct per id.
NameTaken(sub, id) == id \in DOMAIN sub

\* The hardened bucket defaults of s3-bucket-defaults.
DefaultS3Props ==
    ("encryption" :> "S3_MANAGED" @@ "blockPublicAccess" :> "BLOCK_ALL"
        @@ "versioned" :> "true")

\* lambda-helper's deployLambdaFunction: one function construct under the id.
deployLambdaFunction(sub, by, functionId) ==
    AddChild(sub, functionId,
             Construct("lambda.Function", by, Undefined,
                       ("runtime" :> "nodejs12.x" @@ "handler" :> "index.handler")))

(***************************************************************************)
(* The helpers of the file.                                                *)
(***************************************************************************)
W70Reason ==
    "Since the distribution uses the CloudFront domain name, CloudFront automatically sets the security policy to TLSv1 regardless of the value of MinimumProtocolVersion"

LoggingBucketReason ==
    "This S3 bucket is used as the access logging bucket for CloudFront Distribution"

F16Reason == "Public website bucket policy requires a wildcard principal"

\* Faulty variant of updateSecurityPolicy: the metadata is left as the framework made it.
updateSecurityPolicy_skipped(cfDistribution, by) == cfDistribution

\* updateSecurityPolicy: the distribution's metadata becomes the one W70
\* suppression (an assignment, not an append).
updateSecurityPolicy(cfDistribution, by) ==
    [cfDistribution EXCEPT
        !.metadata = <<Suppression("W70", W70Reason)>>,
        !.writers = @ \cup {by}]

\* Faulty variant of LoggingBucketScope: the bucket goes under one shared scope.
LoggingBucketScope_shared(scope) == "s1"

\* The scope createCloudfrontLoggingBucket creates the bucket under (line 41).
LoggingBucketScope(scope) == scope

\* createCloudfrontLoggingBucket: a bucket with the default properties, its
\* AccessControl overridden and two suppressions as its metadata.
createCloudfrontLoggingBucket(sub, by) ==
    AddChild(sub, "CloudfrontLoggingBucket",
             [Construct("s3.Bucket", by, Undefined, DefaultS3Props) EXCEPT
                 !.overrides = @ \cup {<<"AccessControl", "LogDeliveryWrite">>},
                 !.metadata = <<Suppression("W35", LoggingBucketReason),
                                Suppression("W51", LoggingBucketReason)>>])

\* Faulty variant of defaultLambdaEdgeFunction: the Environment block is kept.
defaultLambdaEdgeFunction_keepsEnvironment(sub, by) ==
    deployLambdaFunction(sub, by, "SetHttpSecurityHeaders")

\* defaultLambdaEdgeFunction: the function 'SetHttpSecurityHeaders', with
\* Properties.Environment deleted from its resource declaration.
defaultLambdaEdgeFunction(sub, by) ==
    LET deployed == deployLambdaFunction(sub, by, "SetHttpSecurityHeaders")
    IN  [deployed EXCEPT
            !["SetHttpSecurityHeaders"].deletions = @ \cup {"Properties.Environment"}]

\* new lambda.Version(scope, "SetHttpSecurityHeadersVersion", {lambda: fn}).
NewEdgeLambdaVersion(sub, by, scope) ==
    AddChild(sub, "SetHttpSecurityHeadersVersion",
             Construct("lambda.Version", by,
                       Ref(scope, "SetHttpSecurityHeaders"), EmptyObj))

\* _httpSecurityHeaders of the API variant: h ? h : true.
ApiHttpSecurityHeaders(h) ==
    LET truthy == h = "true"
    IN  IF truthy THEN truthy ELSE TRUE

\* _httpSecurityHeaders of the storage variant:
\* (h !== undefined && h === false) ? false : true.
S3HttpSecurityHeaders(h) == IF h # "undefined" /\ h = "false" THEN FALSE ELSE TRUE

\* Faulty variant of SuppliesLoggingConfig: the caller's logging config is never seen.
SuppliesLoggingConfig_never(props) == FALSE

\* cloudFrontDistributionProps && cloudFrontDistributionProps.loggingConfig
SuppliesLoggingConfig(props) ==
    props.defined /\ "loggingConfig" \in DOMAIN props.obj

\* Faulty variant of SuppliedLoggingBucket: the caller's bucket is dropped.
SuppliedLoggingBucket_dropped(props) == Undefined

\* cloudFrontDistributionProps.loggingConfig.bucket
SuppliedLoggingBucket(props) ==
    LET loggingConfig == props.obj["loggingConfig"]
    IN  IF "bucket" \in DOMAIN loggingConfig THEN loggingConfig["bucket"]
        ELSE Undefined

\* The arguments an entry operation hands to its default-config resolver.
ResolverArgs(origin, loggingBucket, oai, setHeaders, edgeLambda) ==
    [origin |-> origin, loggingBucket |-> loggingBucket,
     originAccessIdentity |-> oai, setHttpSecurityHeaders |-> setHeaders,
     edgeLambda |-> edgeLambda]

NoArgs == ResolverArgs(Undefined, Undefined, Undefined, FALSE, Undefined)

\* The default-config resolvers of cloudfront-distribution-defaults: the
\* origin, the logging destination, and the edge-function version on the
\* default behaviour when header injection is enabled.
DefaultCloudFrontWebDistributionForApiGatewayProps(args) ==
    ("originConfigs" :>
        [origin |-> args.origin, originAccessIdentity |-> Undefined,
         lambdaFunction |->
            IF args.setHttpSecurityHeaders THEN args.edgeLambda ELSE Undefined])
    @@ ("loggingConfig" :> ("bucket" :> args.loggingBucket))

DefaultCloudFrontWebDistributionForS3Props(args) ==
    ("originConfigs" :>
        [origin |-> args.origin,
         originAccessIdentity |-> args.originAccessIdentity,
         lambdaFunction |->
            IF args.setHttpSecurityHeaders THEN args.edgeLambda ELSE Undefined])
    @@ ("loggingConfig" :> ("bucket" :> args.loggingBucket))

\* utils' overrideProps: every top-level property of the caller's object
\* replaces the default's; the others keep their default.
overrideProps(DefaultProps, userProps) ==
    [k \in DOMAIN DefaultProps \cup DOMAIN userProps |->
        IF k \in DOMAIN userProps THEN userProps[k] ELSE DefaultProps[k]]

\* Faulty variant of FinalProps: the caller's object is ignored.
FinalProps_defaultsOnly(defaultprops, props) == defaultprops

\* cfprops: cloudFrontDistributionProps ? overrideProps(defaultprops, it) : defaultprops
FinalProps(defaultprops, props) ==
    IF props.defined THEN overrideProps(defaultprops, props.obj) ELSE defaultprops

\* Faulty variant of OriginAccessPolicyStatement: the principal is the identity's ARN.
OriginAccessPolicyStatement_arnPrincipal(sourceBucket, cfnOrigAccessId) ==
    [actions |-> {"s3:GetObject"},
     resources |-> {[bucket |-> sourceBucket, keyPattern |-> "*"]},
     principal |-> [type |-> "AWS", of |-> cfnOrigAccessId]]

\* The statement of lines 198-202: s3:GetObject on arnForObjects('*') for the
\* canonical user of the origin-access identity.
OriginAccessPolicyStatement(sourceBucket, cfnOrigAccessId) ==
    [actions |-> {"s3:GetObject"},
     resources |-> {[bucket |-> sourceBucket, keyPattern |-> "*"]},
     principal |-> [type |-> "CanonicalUser", of |-> cfnOrigAccessId]]

\* A bucket without a resource policy.
NoPolicy == [exists |-> FALSE, statements |-> <<>>, metadata |-> <<>>, writers |-> {}]

\* Bucket.addToResourcePolicy: the policy is created on first use and the
\* statement appended.
addToResourcePolicy(bucketPolicy, statement, by) ==
    [bucketPolicy EXCEPT
        !.exists = TRUE,
        !.statements = Append(@, statement),
        !.writers = @ \cup {by}]

\* Lines 205-214: the policy resource's metadata becomes the one F16 suppression.
SuppressPolicyFinding(bucketPolicy, by) ==
    [bucketPolicy EXCEPT
        !.metadata = <<Suppression("F16", F16Reason)>>,
        !.writers = @ \cup {by}]

(***************************************************************************)
(* The invocation in progress.                                             *)
(***************************************************************************)
\* The locals of an entry operation; NoFrame when none is running.
NoFrame ==
    [variant |-> "none", scope |-> "", source |-> Undefined,
     props |-> PropsOf("none"), httpSecurityHeaders |-> "undefined",
     setHeaders |-> FALSE, call |-> 0,
     cfnOrigAccessId |-> Undefined, oaiImported |-> Undefined,
     edgeLambdaVersion |-> Undefined,
     resolved |-> FALSE, resolverArgs |-> NoArgs, defaultprops |-> EmptyObj,
     merged |-> FALSE, cfprops |-> EmptyObj,
     cfDistribution |-> Undefined]

\* Faulty variant of StatementAfter: the storage variant grants access and
\* annotates the policy before the distribution exists.
StatementAfter_grantFirst(variant, at) ==
    IF variant = "api"
    THEN CASE at = "entry" -> "edge"
           [] at = "edge" -> "resolve"
           [] at = "resolve" -> "merge"
           [] at = "merge" -> "instantiate"
           [] at = "instantiate" -> "patch"
           [] at = "patch" -> "return"
    ELSE CASE at = "entry" -> "oai"
           [] at = "oai" -> "edge"
           [] at = "edge" -> "resolve"
           [] at = "resolve" -> "merge"
           [] at = "merge" -> "grant"
           [] at = "grant" -> "annotate"
           [] at = "annotate" -> "instantiate"
           [] at = "instantiate" -> "patch"
           [] at = "patch" -> "return"

\* The order of the statements in the two function bodies.
StatementAfter(variant, at) ==
    IF variant = "api"
    THEN CASE at = "entry" -> "edge"
           [] at = "edge" -> "resolve"
           [] at = "resolve" -> "merge"
           [] at = "merge" -> "instantiate"
           [] at = "instantiate" -> "patch"
           [] at = "patch" -> "return"
    ELSE CASE at = "entry" -> "oai"
           [] at = "oai" -> "edge"
           [] at = "edge" -> "resolve"
           [] at = "resolve" -> "merge"
           [] at = "merge" -> "instantiate"
           [] at = "instantiate" -> "patch"
           [] at = "patch" -> "grant"
           [] at = "grant" -> "annotate"
           [] at = "annotate" -> "return"

Init ==
    /\ tree = [s \in Scopes |-> EmptyObj]
    /\ policy = [b \in SourceBuckets |-> NoPolicy]
    /\ frame = NoFrame
    /\ pc = "idle"
    /\ calls = 0
    /\ returned = [outcome |-> "none", value |-> Undefined]

\* The framework raises on a duplicate id; nothing here catches it.
Throw ==
    /\ pc' = "idle"
    /\ frame' = NoFrame
    /\ returned' = [outcome |-> "threw", value |-> Undefined]

Advance == pc' = StatementAfter(frame.variant, pc)

\* The running invocation, as the writer of what it creates and changes.
Me ==
    [call |-> frame.call, scope |-> frame.scope, variant |-> frame.variant,
     source |-> frame.source]

\* A call of CloudFrontDistributionForApiGateway (lines 119-126).
CloudFrontDistributionForApiGateway(scope, apiEndPoint, kind, httpSecurityHeaders) ==
    /\ pc = "idle"
    /\ calls < MaxCalls
    /\ calls' = calls + 1
    /\ frame' = [NoFrame EXCEPT
                    !.variant = "api", !.scope = scope, !.source = apiEndPoint,
                    !.props = PropsOf(kind),
                    !.httpSecurityHeaders = httpSecurityHeaders,
                    !.setHeaders = ApiHttpSecurityHeaders(httpSecurityHeaders),
                    !.call = calls + 1]
    /\ pc' = StatementAfter("api", "entry")
    /\ UNCHANGED <<tree, policy, returned>>

\* A call of CloudFrontDistributionForS3 (lines 153-156, 171-173).
CloudFrontDistributionForS3(scope, sourceBucket, kind, httpSecurityHeaders) ==
    /\ pc = "idle"
    /\ calls < MaxCalls
    /\ calls' = calls + 1
    /\ frame' = [NoFrame EXCEPT
                    !.variant = "s3", !.scope = scope, !.source = sourceBucket,
                    !.props = PropsOf(kind),
                    !.httpSecurityHeaders = httpSecurityHeaders,
                    !.setHeaders = S3HttpSecurityHeaders(httpSecurityHeaders),
                    !.call = calls + 1]
    /\ pc' = StatementAfter("s3", "entry")
    /\ UNCHANGED <<tree, policy, returned>>

\* Lines 158-169: the origin-access identity and its imported form.
CreateOriginAccessIdentity ==
    /\ pc = "oai"
    /\ LET sub == tree[frame.scope]
           withOai == AddChild(sub, "CloudFrontOriginAccessIdentity",
                               Construct("CfnCloudFrontOriginAccessIdentity",
                                         Me, Undefined,
                                         ("comment" :> "Access S3 bucket content only through CloudFront")))
           oaiRef == Ref(frame.scope, "CloudFrontOriginAccessIdentity")
       IN  IF NameTaken(sub, "CloudFrontOriginAccessIdentity")
           THEN Throw /\ UNCHANGED tree
           ELSE IF NameTaken(withOai, "OAIImported")
           THEN Throw /\ tree' = [tree EXCEPT ![frame.scope] = withOai]
           ELSE /\ tree' = [tree EXCEPT ![frame.scope] =
                               AddChild(withOai, "OAIImported",
                                        Construct("OriginAccessIdentity", Me,
                                                  oaiRef, EmptyObj))]
                /\ frame' = [frame EXCEPT
                                !.cfnOrigAccessId = oaiRef,
                                !.oaiImported = Ref(frame.scope, "OAIImported")]
                /\ Advance
                /\ UNCHANGED returned
    /\ UNCHANGED <<policy, calls>>

\* Lines 128-132 and 175-179: the edge function and its version, when header
\* injection is on.  The function is made first: it is the version's argument.
ProvisionEdgeLambda ==
    /\ pc = "edge"
    /\ LET sub == tree[frame.scope]
           withFn == defaultLambdaEdgeFunction(sub, Me)
       IN  IF ~frame.setHeaders
           THEN Advance /\ UNCHANGED <<tree, frame, returned>>
           ELSE IF NameTaken(sub, "SetHttpSecurityHeaders")
           THEN Throw /\ UNCHANGED tree
           ELSE IF NameTaken(withFn, "SetHttpSecurityHeadersVersion")
           THEN Throw /\ tree' = [tree EXCEPT ![frame.scope] = withFn]
           ELSE /\ tree' = [tree EXCEPT ![frame.scope] =
                               NewEdgeLambdaVersion(withFn, Me, frame.scope)]
                /\ frame' = [frame EXCEPT !.edgeLambdaVersion =
                                Ref(frame.scope, "SetHttpSecurityHeadersVersion")]
                /\ Advance
                /\ UNCHANGED returned
    /\ UNCHANGED <<policy, calls>>

\* The resolver of the variant, applied to the arguments.
ResolveDefaults(variant, args) ==
    IF variant = "api"
    THEN DefaultCloudFrontWebDistributionForApiGatewayProps(args)
    ELSE DefaultCloudFrontWebDistributionForS3Props(args)

\* Lines 134-143 and 181-190: the caller's logging bucket, or a new one, goes
\* to the resolver.
ResolveDefaultProps ==
    /\ pc = "resolve"
    /\ LET supplied == SuppliesLoggingConfig(frame.props)
           under == LoggingBucketScope(frame.scope)
           loggingBucket ==
               IF supplied THEN SuppliedLoggingBucket(frame.props)
               ELSE Ref(under, "CloudfrontLoggingBucket")
           args == ResolverArgs(frame.source, loggingBucket, frame.oaiImported,
                                frame.setHeaders, frame.edgeLambdaVersion)
       IN  IF ~supplied /\ NameTaken(tree[under], "CloudfrontLoggingBucket")
           THEN Throw /\ UNCHANGED tree
           ELSE /\ tree' = IF supplied THEN tree
                           ELSE [tree EXCEPT ![under] =
                                    createCloudfrontLoggingBucket(@, Me)]
                /\ frame' = [frame EXCEPT
                                !.resolved = TRUE,
                                !.resolverArgs = args,
                                !.defaultprops = ResolveDefaults(frame.variant, args)]
                /\ Advance
                /\ UNCHANGED returned
    /\ UNCHANGED <<policy, calls>>

\* Lines 145 and 192: cfprops.
OverrideDefaults ==
    /\ pc = "merge"
    /\ frame' = [frame EXCEPT
                    !.merged = TRUE,
                    !.cfprops = FinalProps(frame.defaultprops, frame.props)]
    /\ Advance
    /\ UNCHANGED <<tree, policy, calls, returned>>

\* Lines 147 and 194: new CloudFrontWebDistribution(scope, 'CloudFrontDistribution', cfprops).
CreateDistribution ==
    /\ pc = "instantiate"
    /\ IF NameTaken(tree[frame.scope], "CloudFrontDistribution")
       THEN Throw /\ UNCHANGED tree
       ELSE /\ tree' = [tree EXCEPT ![frame.scope] =
                           AddChild(@, "CloudFrontDistribution",
                                    Construct("CloudFrontWebDistribution", Me,
                                              Undefined, frame.cfprops))]
            /\ frame' = [frame EXCEPT !.cfDistribution =
                            Ref(frame.scope, "CloudFrontDistribution")]
            /\ Advance
            /\ UNCHANGED returned
    /\ UNCHANGED <<policy, calls>>

\* Lines 148 and 195: updateSecurityPolicy(cfDistribution).
PatchSecurityPolicy ==
    /\ pc = "patch"
    /\ tree' = [tree EXCEPT ![frame.scope]["CloudFrontDistribution"] =
                   updateSecurityPolicy(@, Me)]
    /\ Advance
    /\ UNCHANGED <<policy, frame, calls, returned>>

\* Lines 198-202: the GetObject statement goes onto the source bucket's policy.
GrantOriginAccess ==
    /\ pc = "grant"
    /\ policy' = [policy EXCEPT ![frame.source] =
                     addToResourcePolicy(@,
                         OriginAccessPolicyStatement(frame.source, frame.cfnOrigAccessId),
                         Me)]
    /\ Advance
    /\ UNCHANGED <<tree, frame, calls, returned>>

\* Lines 205-214: the policy resource is annotated.
AnnotateBucketPolicy ==
    /\ pc = "annotate"
    /\ policy' = [policy EXCEPT ![frame.source] = SuppressPolicyFinding(@, Me)]
    /\ Advance
    /\ UNCHANGED <<tree, frame, calls, returned>>

\* Lines 150 and 215: return cfDistribution.
ReturnDistribution ==
    /\ pc = "return"
    /\ returned' = [outcome |-> "returned", value |-> frame.cfDistribution]
    /\ frame' = NoFrame
    /\ pc' = "idle"
    /\ UNCHANGED <<tree, policy, calls>>

Next ==
    \/ \E scope \in Scopes, apiEndPoint \in ApiEndPoints,
          kind \in PropsKinds, h \in HeaderInputs :
            CloudFrontDistributionForApiGateway(scope, apiEndPoint, kind, h)
    \/ \E scope \in Scopes, sourceBucket \in SourceBuckets,
          kind \in PropsKinds, h \in HeaderInputs :
            CloudFrontDistributionForS3(scope, sourceBucket, kind, h)
    \/ CreateOriginAccessIdentity
    \/ ProvisionEdgeLambda
    \/ ResolveDefaultProps
    \/ OverrideDefaults
    \/ CreateDistribution
    \/ PatchSecurityPolicy
    \/ GrantOriginAccess
    \/ AnnotateBucketPolicy
    \/ ReturnDistribution

Spec == Init /\ [][Next]_vars

(***************************************************************************)
(* Vocabulary of the properties.                                           *)
(***************************************************************************)
\* Every statement of the running invocation has executed; it is about to return.
Completed == pc = "return"

\* All constructs of the tree, by reference.
AllConstructs == UNION {{Ref(s, i) : i \in DOMAIN tree[s]} : s \in Scopes}

At(r) == tree[r.scope][r.id]

\* The constructs of a kind that the running invocation has written.
WrittenHere(kind) == {r \in AllConstructs : At(r).kind = kind /\ Me \in At(r).writers}

\* The construct `id` of the invocation's scope exists and was made by it.
MadeHere(id) ==
    /\ id \in DOMAIN tree[frame.scope]
    /\ tree[frame.scope][id].writers = {Me}

\* The caller names a logging destination: loggingConfig.bucket is set.
NamesLoggingBucket(props) ==
    /\ props.defined
    /\ "loggingConfig" \in DOMAIN props.obj
    /\ "bucket" \in DOMAIN props.obj["loggingConfig"]

\* Header injection is asked for: httpSecurityHeaders omitted or true.
HeadersRequested == frame.httpSecurityHeaders \in {"undefined", "true"}

\* The invocation's logging bucket exists with its AccessControl override.
LoggingBucketProvisioned ==
    /\ WrittenHere("s3.Bucket") = {Ref(frame.scope, "CloudfrontLoggingBucket")}
    /\ <<"AccessControl", "LogDeliveryWrite">>
          \in tree[frame.scope]["CloudfrontLoggingBucket"].overrides

\* C1: an invocation whose caller names no logging destination (no object, no
\* loggingConfig, or a loggingConfig without bucket) creates exactly one
\* logging bucket, 'CloudfrontLoggingBucket', with AccessControl
\* LogDeliveryWrite.
C1_LoggingBucketWithoutDestination ==
    (Completed /\ ~NamesLoggingBucket(frame.props)) => LoggingBucketProvisioned

\* C2: an invocation with header injection switched off creates no edge
\* function and no version, hands no version to the resolver, and the default
\* behaviour carries no edge function.
C2_NoEdgeFunctionWhenDisabled ==
    (Completed /\ frame.httpSecurityHeaders = "false") =>
        /\ WrittenHere("lambda.Function") = {}
        /\ WrittenHere("lambda.Version") = {}
        /\ frame.resolverArgs.edgeLambda = Undefined
        /\ frame.defaultprops["originConfigs"].lambdaFunction = Undefined

\* C3: an invocation with header injection on (omitted or true) creates
\* exactly one edge function 'SetHttpSecurityHeaders' and exactly one version
\* 'SetHttpSecurityHeadersVersion' of it, hands that version to the resolver,
\* and the function's declaration has Properties.Environment deleted.
C3_EdgeFunctionWhenEnabled ==
    (Completed /\ HeadersRequested) =>
        /\ WrittenHere("lambda.Function") = {Ref(frame.scope, "SetHttpSecurityHeaders")}
        /\ WrittenHere("lambda.Version") = {Ref(frame.scope, "SetHttpSecurityHeadersVersion")}
        /\ tree[frame.scope]["SetHttpSecurityHeadersVersion"].link
              = Ref(frame.scope, "SetHttpSecurityHeaders")
        /\ frame.resolverArgs.edgeLambda = Ref(frame.scope, "SetHttpSecurityHeadersVersion")
        /\ "Properties.Environment"
              \in tree[frame.scope]["SetHttpSecurityHeaders"].deletions

C3_Witness ==
    /\ Completed
    /\ frame.httpSecurityHeaders = "undefined"
    /\ MadeHere("SetHttpSecurityHeaders")
    /\ MadeHere("SetHttpSecurityHeadersVersion")

\* C4: an invocation whose caller sets loggingConfig.bucket creates no logging
\* bucket at any point, whatever the header-injection setting.
C4_NoLoggingBucketWhenSupplied ==
    (pc # "idle" /\ NamesLoggingBucket(frame.props)) => WrittenHere("s3.Bucket") = {}

C4_Witness ==
    /\ Completed
    /\ NamesLoggingBucket(frame.props)
    /\ ~frame.setHeaders
    /\ MadeHere("CloudFrontDistribution")

\* The distribution of scope s has passed updateSecurityPolicy.
BeingPatched(s) == pc = "patch" /\ frame.scope = s

\* C5: once patched, on every branch, a distribution's resource declaration
\* carries exactly one suppression: rule W70 with a non-empty justification.
C5_OneW70Suppression ==
    \A s \in Scopes :
        ("CloudFrontDistribution" \in DOMAIN tree[s] /\ ~BeingPatched(s)) =>
            LET metadata == tree[s]["CloudFrontDistribution"].metadata
            IN  /\ Len(metadata) = 1
                /\ metadata[1].id = "W70"
                /\ metadata[1].reason # ""

C5_Witness ==
    /\ Completed
    /\ frame.variant = "s3"
    /\ ~frame.setHeaders
    /\ SuppliesLoggingConfig(frame.props)
    /\ Len(tree[frame.scope]["CloudFrontDistribution"].metadata) = 1

\* The origin-access identity the running storage invocation creates.
OwnIdentity == Ref(frame.scope, "CloudFrontOriginAccessIdentity")

\* C6: after CloudFrontDistributionForS3 with source bucket B and no logging
\* config, B's policy holds a statement allowing s3:GetObject on all objects
\* of B to the canonical user of the identity created in this invocation (the
\* one handed to the resolver for the origin), and B's policy resource carries
\* exactly one suppression, rule F16.
C6_SourceBucketGrant ==
    (Completed /\ frame.variant = "s3" /\ ~SuppliesLoggingConfig(frame.props)) =>
        LET B == frame.source
            statements == policy[B].statements
        IN  /\ policy[B].exists
            /\ MadeHere("CloudFrontOriginAccessIdentity")
            /\ MadeHere("OAIImported")
            /\ tree[frame.scope]["OAIImported"].link = OwnIdentity
            /\ frame.resolverArgs.originAccessIdentity = Ref(frame.scope, "OAIImported")
            /\ frame.resolverArgs.origin = B
            /\ \E i \in 1..Len(statements) :
                  /\ statements[i].actions = {"s3:GetObject"}
                  /\ statements[i].resources = {[bucket |-> B, keyPattern |-> "*"]}
                  /\ statements[i].principal = [type |-> "CanonicalUser", of |-> OwnIdentity]
            /\ Len(policy[B].metadata) = 1
            /\ policy[B].metadata[1].id = "F16"

C6_Witness ==
    /\ Completed
    /\ frame.variant = "s3"
    /\ ~frame.props.defined
    /\ Len(policy[frame.source].statements) = 2

\* C7: CloudFrontDistributionForApiGateway with endpoint E and a caller
\* loggingConfig.bucket M hands M to the resolver as the logging destination,
\* instantiates the distribution with M as its access-log destination, and
\* creates no logging bucket.
C7_ApiReusesCallerBucket ==
    (Completed /\ frame.variant = "api" /\ NamesLoggingBucket(frame.props)) =>
        LET M == frame.props.obj["loggingConfig"]["bucket"]
            used == tree[frame.scope]["CloudFrontDistribution"].props
        IN  /\ frame.resolverArgs.origin = frame.source
            /\ frame.resolverArgs.loggingBucket = M
            /\ "bucket" \in DOMAIN used["loggingConfig"]
            /\ used["loggingConfig"]["bucket"] = M
            /\ WrittenHere("s3.Bucket") = {}

C7_Witness ==
    /\ Completed
    /\ frame.variant = "api"
    /\ frame.source \in ApiEndPoints
    /\ NamesLoggingBucket(frame.props)
    /\ frame.props.obj["loggingConfig"]["bucket"] = CallerLogBucket
    /\ MadeHere("CloudFrontDistribution")

\* C8: the configuration the distribution is instantiated with is the shallow
\* override of the resolver's defaults by the caller's object: a key of the
\* caller's object has the caller's value whole, any other key has the
\* default, and with no object or an empty one it is the defaults themselves.
C8_ShallowOverride ==
    Completed =>
        LET used == tree[frame.scope]["CloudFrontDistribution"].props
            defaults == frame.defaultprops
            given == IF frame.props.defined THEN DOMAIN frame.props.obj ELSE {}
        IN  /\ DOMAIN used = DOMAIN defaults \cup given
            /\ \A k \in given : used[k] = frame.props.obj[k]
            /\ \A k \in DOMAIN defaults \ given : used[k] = defaults[k]
            /\ given = {} => used = defaults

\* A caller loggingConfig holding only a prefix: the default's bucket is gone.
C8_Witness ==
    /\ Completed
    /\ frame.props.defined
    /\ "loggingConfig" \in DOMAIN frame.props.obj
    /\ DOMAIN frame.props.obj["loggingConfig"] = {"prefix"}
    /\ DOMAIN frame.defaultprops["loggingConfig"] = {"bucket"}
    /\ DOMAIN tree[frame.scope]["CloudFrontDistribution"].props["loggingConfig"] = {"prefix"}

\* Two invocations that were given different scopes are among the writers.
WrittenAcrossScopes(writers) ==
    \E v, w \in writers : v.call # w.call /\ v.scope # w.scope

\* C9 as stated: no resource is written by two invocations that were given
\* different scopes, the source bucket of two storage invocations included.
C9_NoResourceWrittenTwice ==
    /\ \A r \in AllConstructs : ~WrittenAcrossScopes(At(r).writers)
    /\ \A b \in SourceBuckets : ~WrittenAcrossScopes(policy[b].writers)

\* C9, amended: every construct of the tree is written by one invocation only,
\* the one that created it, and lies under that invocation's scope; the one
\* resource an invocation writes without creating it under its scope is the
\* resource policy of the source bucket it was given, in
\* CloudFrontDistributionForS3.
C9_OnlySourcePolicyShared ==
    /\ \A r \in AllConstructs :
          /\ Cardinality(At(r).writers) = 1
          /\ \A w \in At(r).writers : w.scope = r.scope
    /\ \A b \in SourceBuckets :
          \A w \in policy[b].writers : w.variant = "s3" /\ w.source = b

\* Two storage invocations, different scopes, the same source bucket.
C9_Witness ==
    /\ Completed
    /\ frame.variant = "s3"
    /\ WrittenAcrossScopes(policy[frame.source].writers)
    /\ MadeHere("CloudfrontLoggingBucket")

\* The running invocation's distribution exists and carries the W70 patch.
DistributionPatched ==
    /\ frame.cfDistribution = Ref(frame.scope, "CloudFrontDistribution")
    /\ MadeHere("CloudFrontDistribution")
    /\ Len(tree[frame.scope]["CloudFrontDistribution"].metadata) = 1

\* C10: in a running invocation the distribution is instantiated only from
\* the merged configuration, and patched only once instantiated; merging
\* follows resolving; in the storage variant the identity exists before the
\* defaults are resolved, and the source bucket's policy is written (statement
\* and annotation) only after the distribution is instantiated and patched.
C10_StatementOrder ==
    pc # "idle" =>
        /\ frame.merged => frame.resolved
        /\ frame.cfDistribution # Undefined =>
              /\ frame.merged
              /\ MadeHere("CloudFrontDistribution")
              /\ tree[frame.scope]["CloudFrontDistribution"].props = frame.cfprops
        /\ pc \in {"grant", "annotate", "return"} => DistributionPatched
        /\ (frame.variant = "s3" /\ frame.resolved) =>
              /\ frame.cfnOrigAccessId = OwnIdentity
              /\ MadeHere("CloudFrontOriginAccessIdentity")
        /\ (frame.variant = "s3" /\ Me \in policy[frame.source].writers) =>
              DistributionPatched

C10_Witness ==
    /\ Completed
    /\ frame.variant = "s3"
    /\ Me \in policy[frame.source].writers
    /\ DistributionPatched
    /\ frame.merged

====
